---- MODULE Spec2Model ----
(***************************************************************************)
(* Model of binance-etl: the spot depth pipeline (SpotDepthETL on top of   *)
(* BinanceETL), the order book synchronizer (OrderBookSynchronizer), the   *)
(* spot trades pipeline (SpotTradesETL) and the batched CSV storage sink   *)
(* (StorageProvider / CsvStorage).                                         *)
(*                                                                         *)
(* Python's None is the empty sequence <<>>, a present value v is <<v>>.   *)
(* A DataFrame is the sequence of its rows, a CSV file the sequence of its *)
(* lines.  A websocket handler runs to completion, so each frame is one    *)
(* action.                                                                 *)
(***************************************************************************)
EXTENDS Integers, Sequences, FiniteSets, TLC

(* ---------------------------- bounds ----------------------------------- *)
\* largest update id the exchange emits on the depth stream
MaxId == 4
\* largest value of the local wall clock (ms)
MaxTime == 2
\* largest exchange event time (ms)
MaxETime == 1
\* storage.csv.batch_size of the configuration
BatchSize == 3
\* largest trade id the exchange emits on the trade stream
MaxTradeId == 4
\* largest number of add calls made on a sink driven directly
MaxCalls == 6
\* subscriptions in the configuration
MaxEtls == 2
\* frames delivered to the pipelines under the supervisor, all together
MaxFrames == 2
\* shutdown signals delivered to the process
MaxSignals == 2
\* the cap on buffered updates a capped synchronizer would enforce; it is below
\* the number of updates the stream can deliver
BufferCap == 2
\* storage_batch_size of IncrementalBookETL
StorageBatchSize == 2

(* ---------------------------- inputs ----------------------------------- *)
\* price levels carried by one depth update: (bids, asks), decimal strings
Payloads ==
    { [bids |-> << <<"100", "0">> >>, asks |-> << <<"101", "2">> >>],
      [bids |-> <<>>,                 asks |-> << <<"102", "1">> >>] }

\* the book returned by the REST endpoint, lastUpdateId aside
SnapshotBids == << <<"99", "5">> >>
SnapshotAsks == << <<"101", "7">> >>

VARIABLES
    pc,                 \* lifecycle of the pipeline
    local_timestamp,    \* BinanceETL.local_timestamp
    last_book_update,   \* SpotDepthETL.last_book_update
    book_synchronizer,  \* OrderBookSynchronizer: is_synced, initial_book_snapshot, book_updates
    storage,            \* CsvStorage: buffers, batch counters, the two files
    total_messages,     \* BinanceETL.total_messages / SpotTradesETL.total_trades
    now,                \* the local wall clock, ms
    etime,              \* the exchange's event clock, ms
    wire,               \* last id the exchange has emitted on the stream
    raised,             \* number of exceptions the handler has thrown to the transport
    arrived,            \* history: the deserialized updates/trades delivered to the handler
    handed,             \* history: the row sets handed to add_depth_updates, in call order
    trade_frames,       \* history: the frames delivered on the trade stream
    handed_trades,      \* history: the row sets handed to add_trades, in call order
    synced_at,          \* history: number of arrivals when is_synced became true (0: not yet)
    warned,             \* the handler logged a warning while processing the last frame
    config,             \* config['events']: the subscriptions, in order
    etls,               \* the pipelines the supervisor has built, in order
    sinks,              \* the CsvStorage instances the factory has constructed
    main,               \* the main thread of the supervisor: position, exit code
    handler,            \* the shutdown signal handler: installed, running, position
    in_call,            \* the add_* calls in progress on the sink, one per calling thread
    etl_book_updates    \* IncrementalBookETL.book_updates: accepted updates not yet saved

vars == << pc, local_timestamp, last_book_update, book_synchronizer, storage,
           total_messages, now, etime, wire, raised, arrived, handed, trade_frames,
           handed_trades, synced_at, warned, config, etls, sinks, main, handler,
           in_call, etl_book_updates >>

\* the state of the supervisor and of the pipelines it builds
supervisor_vars == << config, etls, sinks, main, handler >>

(* ---------------------------- helpers ---------------------------------- *)
RECURSIVE Flatten(_)
Flatten(ss) == IF ss = <<>> THEN <<>> ELSE Head(ss) \o Flatten(Tail(ss))

(* ---------------------------- storage sink ----------------------------- *)
DepthColumns == <<"timestamp", "local_timestamp", "side", "price", "quantity", "is_snapshot">>
TradeColumns == <<"timestamp", "local_timestamp", "id", "price", "quantity", "side">>

HeaderLine(cols) == [header |-> TRUE,  columns |-> cols, row |-> <<>>]
RowLine(r)       == [header |-> FALSE, columns |-> <<>>, row |-> <<r>>]

\* to_csv with mode='w': the file is replaced by the frame written
ToCsvOverwrite(file, df, cols, write_header) ==
    (IF write_header THEN <<HeaderLine(cols)>> ELSE <<>>)
        \o [i \in 1..Len(df) |-> RowLine(df[i])]

\* DataFrame.to_csv(path, index=False, mode='a', header=write_header)
ToCsv(file, df, cols, write_header) ==
    file \o (IF write_header THEN <<HeaderLine(cols)>> ELSE <<>>)
         \o [i \in 1..Len(df) |-> RowLine(df[i])]

\* StorageProvider.__init__ and CsvStorage.__init__
NewStorage ==
    [ depth_updates_df            |-> <<>>,
      trades_df                   |-> <<>>,
      depth_updates_batches_saved |-> 0,
      trades_batches_saved        |-> 0,
      depth_csv                   |-> <<>>,
      trades_csv                  |-> <<>> ]

\* _save_depth_updates that passes header=True on every flush
SaveDepthUpdatesHeaderAlways(st) ==
    [st EXCEPT !.depth_csv = ToCsv(@, st.depth_updates_df, DepthColumns, TRUE)]

\* _save_depth_updates with the header test inverted
SaveDepthUpdatesHeaderInverted(st) ==
    LET write_header == st.depth_updates_batches_saved # 0
    IN  [st EXCEPT !.depth_csv = ToCsv(@, st.depth_updates_df, DepthColumns, write_header)]

\* CsvStorage._save_depth_updates
SaveDepthUpdates(st) ==
    LET write_header == st.depth_updates_batches_saved = 0
    IN  [st EXCEPT !.depth_csv = ToCsv(@, st.depth_updates_df, DepthColumns, write_header)]

\* CsvStorage._save_trades
SaveTrades(st) ==
    LET write_header == st.trades_batches_saved = 0
    IN  [st EXCEPT !.trades_csv = ToCsv(@, st.trades_df, TradeColumns, write_header)]

\* add_depth_updates that assigns the new rows to the buffer instead of
\* concatenating them to it
AddDepthUpdatesReplace(st, depth_updates) ==
    LET s1 == [st EXCEPT !.depth_updates_df = depth_updates]
    IN  IF Len(s1.depth_updates_df) >= BatchSize
        THEN [SaveDepthUpdates(s1) EXCEPT
                 !.depth_updates_batches_saved = @ + 1,
                 !.depth_updates_df = <<>>]
        ELSE s1

\* add_depth_updates that flushes only when the buffer exceeds batch_size
AddDepthUpdatesStrict(st, depth_updates) ==
    LET s1 == [st EXCEPT !.depth_updates_df = @ \o depth_updates]
    IN  IF Len(s1.depth_updates_df) > BatchSize
        THEN [SaveDepthUpdates(s1) EXCEPT
                 !.depth_updates_batches_saved = @ + 1,
                 !.depth_updates_df = <<>>]
        ELSE s1

\* StorageProvider.add_depth_updates
AddDepthUpdates(st, depth_updates) ==
    LET s1 == [st EXCEPT !.depth_updates_df = @ \o depth_updates]
    IN  IF Len(s1.depth_updates_df) >= BatchSize
        THEN [SaveDepthUpdates(s1) EXCEPT
                 !.depth_updates_batches_saved = @ + 1,
                 !.depth_updates_df = <<>>]
        ELSE s1

\* add_trades whose flush empties the depth buffer along with the trades buffer
AddTradesResetsBoth(st, trades) ==
    LET s1 == [st EXCEPT !.trades_df = @ \o trades]
    IN  IF Len(s1.trades_df) >= BatchSize
        THEN [SaveTrades(s1) EXCEPT
                 !.trades_batches_saved = @ + 1,
                 !.trades_df = <<>>,
                 !.depth_updates_df = <<>>]
        ELSE s1

\* StorageProvider.add_trades
AddTrades(st, trades) ==
    LET s1 == [st EXCEPT !.trades_df = @ \o trades]
    IN  IF Len(s1.trades_df) >= BatchSize
        THEN [SaveTrades(s1) EXCEPT
                 !.trades_batches_saved = @ + 1,
                 !.trades_df = <<>>]
        ELSE s1

(* ---------------------------- depth synchronizer ----------------------- *)
\* OrderBookSynchronizer.__init__
NewSynchronizer ==
    [ is_synced |-> FALSE, initial_book_snapshot |-> <<>>, book_updates |-> <<>> ]

\* the search for the first update with a strict lower comparison: an update that
\* starts exactly at last_update_id + 1 is not accepted
FirstUpdateToProcessStrict(valid_updates, last_update_id) ==
    LET ok == { i \in 1..Len(valid_updates) :
                  /\ valid_updates[i].first_update_id < last_update_id + 1
                  /\ valid_updates[i].last_update_id >= last_update_id + 1 }
    IN  IF ok = {} THEN 0 ELSE CHOOSE i \in ok : \A j \in ok : i <= j

\* the loop of try_to_sync_book that finds first_update_to_process:
\* the index in valid_updates of the first update that straddles L + 1, 0 if none
FirstUpdateToProcess(valid_updates, last_update_id) ==
    LET ok == { i \in 1..Len(valid_updates) :
                  /\ valid_updates[i].first_update_id <= last_update_id + 1
                  /\ valid_updates[i].last_update_id >= last_update_id + 1 }
    IN  IF ok = {} THEN 0 ELSE CHOOSE i \in ok : \A j \in ok : i <= j

\* try_to_sync_book without the truncation: the whole buffer is kept
KeepAll(book_updates, first_update_to_process) == book_updates

\* the truncation with a strict comparison: first_update_to_process itself is dropped
KeepAfter(book_updates, first_update_to_process) ==
    SelectSeq(book_updates,
              LAMBDA x : x.first_update_id > first_update_to_process.first_update_id)

\* the truncation of try_to_sync_book: updates from first_update_to_process onward
KeepFrom(book_updates, first_update_to_process) ==
    SelectSeq(book_updates,
              LAMBDA x : x.first_update_id >= first_update_to_process.first_update_id)

\* try_to_sync_book that buffers the update only once a snapshot is held: an
\* update offered while the fetch fails is lost
TryToSyncBookFetchFirst(sync, update, fetch) ==
    LET snapshot == IF sync.initial_book_snapshot = <<>> THEN fetch
                    ELSE sync.initial_book_snapshot
        appended == IF snapshot = <<>> THEN sync.book_updates
                    ELSE Append(sync.book_updates, update)
        s1       == [sync EXCEPT !.book_updates = appended,
                                 !.initial_book_snapshot = snapshot]
    IN  IF snapshot = <<>> THEN s1
        ELSE LET last_update_id == snapshot[1].lastUpdateId
                 valid_updates  == SelectSeq(appended,
                                       LAMBDA x : x.last_update_id > last_update_id)
                 k == FirstUpdateToProcess(valid_updates, last_update_id)
             IN  IF Len(valid_updates) = 0 THEN s1
                 ELSE IF k = 0 THEN s1
                 ELSE [s1 EXCEPT !.book_updates = KeepFrom(appended, valid_updates[k]),
                                 !.is_synced = TRUE]

\* OrderBookSynchronizer.try_to_sync_book; fetch is the outcome of the REST call,
\* <<>> when it raised, <<snapshot>> when it returned
TryToSyncBook(sync, update, fetch) ==
    LET appended == Append(sync.book_updates, update)
        snapshot == IF sync.initial_book_snapshot = <<>> THEN fetch
                    ELSE sync.initial_book_snapshot
        s1       == [sync EXCEPT !.book_updates = appended,
                                 !.initial_book_snapshot = snapshot]
    IN  IF snapshot = <<>> THEN s1
        ELSE LET last_update_id == snapshot[1].lastUpdateId
                 valid_updates  == SelectSeq(appended,
                                       LAMBDA x : x.last_update_id > last_update_id)
                 k == FirstUpdateToProcess(valid_updates, last_update_id)
             IN  IF Len(valid_updates) = 0 THEN s1
                 ELSE IF k = 0 THEN s1
                 ELSE [s1 EXCEPT !.book_updates = KeepFrom(appended, valid_updates[k]),
                                 !.is_synced = TRUE]

(* ---------------------------- depth pipeline --------------------------- *)
\* _is_consistent that compares first_update_id with the previous last_update_id
\* itself instead of its successor
IsConsistentOffByOne(last, update) ==
    IF last # <<>> /\ update.first_update_id # last[1].last_update_id
    THEN FALSE
    ELSE TRUE

\* SpotDepthETL._is_consistent: the verdict (last_book_update is replaced either way)
IsConsistent(last, update) ==
    IF last # <<>> /\ update.first_update_id # last[1].last_update_id + 1
    THEN FALSE
    ELSE TRUE

\* one side of the frame with the levels of quantity "0" left out
SideRowsNonZero(update, side, levels, is_initial_snapshot) ==
    LET kept == SelectSeq(levels, LAMBDA level : level[2] # "0")
    IN  [ i \in 1..Len(kept) |->
            [ timestamp       |-> update.timestamp,
              local_timestamp |-> update.local_timestamp,
              side            |-> side,
              price           |-> kept[i][1],
              quantity        |-> kept[i][2],
              is_snapshot     |-> is_initial_snapshot ] ]

\* one side of the frame built by _save_update
SideRows(update, side, levels, is_initial_snapshot) ==
    [ i \in 1..Len(levels) |->
        [ timestamp       |-> update.timestamp,
          local_timestamp |-> update.local_timestamp,
          side            |-> side,
          price           |-> levels[i][1],
          quantity        |-> levels[i][2],
          is_snapshot     |-> is_initial_snapshot ] ]

\* the DataFrame _save_update hands to the sink: concat([bids, asks]) sorted by
\* (timestamp, side); all rows share one timestamp, so "ask" rows precede "bid" rows
UpdateRows(update, is_initial_snapshot) ==
    SideRows(update, "ask", update.asks, is_initial_snapshot)
        \o SideRows(update, "bid", update.bids, is_initial_snapshot)

\* SpotDepthETL._save_update
SaveUpdate(st, update, is_initial_snapshot) ==
    AddDepthUpdates(st, UpdateRows(update, is_initial_snapshot))

\* the mapping of SpotDepthETL._save_initial_snapshot
MappedSnapshot(snapshot, lts) ==
    [ timestamp       |-> lts - 1,
      local_timestamp |-> lts - 1,
      bids            |-> snapshot.bids,
      asks            |-> snapshot.asks ]

\* the _save_update calls of a handler that does not wait for the sync: an update
\* that did not complete the sync is saved all the same
SaveCallsEager(sync, sync2, message, lts) ==
    IF ~sync.is_synced /\ sync2.is_synced
    THEN << [update |-> MappedSnapshot(sync2.initial_book_snapshot[1], lts),
             is_initial_snapshot |-> TRUE] >>
         \o [i \in 1..Len(sync2.book_updates) |->
               [update |-> sync2.book_updates[i], is_initial_snapshot |-> FALSE]]
         \o << [update |-> message, is_initial_snapshot |-> FALSE] >>
    ELSE << [update |-> message, is_initial_snapshot |-> FALSE] >>

\* save calls of a handler that persists the update of a synced pipeline twice
SaveCallsTwiceWhenSynced(sync, sync2, message, lts) ==
    IF ~sync.is_synced
    THEN IF ~sync2.is_synced
         THEN <<>>
         ELSE << [update |-> MappedSnapshot(sync2.initial_book_snapshot[1], lts),
                  is_initial_snapshot |-> TRUE] >>
              \o [i \in 1..Len(sync2.book_updates) |->
                    [update |-> sync2.book_updates[i], is_initial_snapshot |-> FALSE]]
              \o << [update |-> message, is_initial_snapshot |-> FALSE] >>
    ELSE << [update |-> message, is_initial_snapshot |-> FALSE],
            [update |-> message, is_initial_snapshot |-> FALSE] >>

\* the _save_update calls of SpotDepthETL._handle_message once the consistency
\* check has passed, in call order; sync is the synchronizer before the frame,
\* sync2 after try_to_sync_book
SaveCalls(sync, sync2, message, lts) ==
    IF ~sync.is_synced
    THEN IF ~sync2.is_synced
         THEN <<>>
         ELSE << [update |-> MappedSnapshot(sync2.initial_book_snapshot[1], lts),
                  is_initial_snapshot |-> TRUE] >>
              \o [i \in 1..Len(sync2.book_updates) |->
                    [update |-> sync2.book_updates[i], is_initial_snapshot |-> FALSE]]
              \o << [update |-> message, is_initial_snapshot |-> FALSE] >>
    ELSE << [update |-> message, is_initial_snapshot |-> FALSE] >>

RECURSIVE SaveAll(_, _)
SaveAll(st, calls) ==
    IF calls = <<>> THEN st
    ELSE SaveAll(SaveUpdate(st, Head(calls).update, Head(calls).is_initial_snapshot),
                 Tail(calls))

\* _handle_message that tests consistency after saving: a synced pipeline hands
\* the update to the sink, then raises
HandleMessageSaveThenCheck(sync, last, message, fetch, lts) ==
    IF ~IsConsistent(last, message)
    THEN [raised |-> TRUE, sync |-> sync,
          calls |-> IF sync.is_synced
                    THEN << [update |-> message, is_initial_snapshot |-> FALSE] >>
                    ELSE <<>>,
          warned |-> TRUE]
    ELSE LET sync2 == IF sync.is_synced THEN sync
                      ELSE TryToSyncBook(sync, message, fetch)
         IN  [raised |-> FALSE, sync |-> sync2,
              calls |-> SaveCalls(sync, sync2, message, lts),
              warned |-> ~sync2.is_synced]

\* _handle_message that offers every accepted update to the synchronizer, synced
\* or not
HandleMessageAlwaysOffers(sync, last, message, fetch, lts) ==
    IF ~IsConsistent(last, message)
    THEN [raised |-> TRUE, sync |-> sync, calls |-> <<>>, warned |-> TRUE]
    ELSE LET sync2 == TryToSyncBook(sync, message, fetch)
         IN  [raised |-> FALSE, sync |-> sync2,
              calls |-> SaveCalls(sync, sync2, message, lts),
              warned |-> ~sync2.is_synced]

\* _handle_message that raises on an inconsistent update only once synced
HandleMessageLenient(sync, last, message, fetch, lts) ==
    IF ~IsConsistent(last, message) /\ sync.is_synced
    THEN [raised |-> TRUE, sync |-> sync, calls |-> <<>>, warned |-> TRUE]
    ELSE LET sync2 == IF sync.is_synced THEN sync
                      ELSE TryToSyncBook(sync, message, fetch)
         IN  [raised |-> FALSE, sync |-> sync2,
              calls |-> SaveCalls(sync, sync2, message, lts),
              warned |-> ~sync2.is_synced]

\* _handle_message that answers an inconsistent update by starting the
\* synchronization over instead of raising
HandleMessageResync(sync, last, message, fetch, lts) ==
    IF ~IsConsistent(last, message)
    THEN [raised |-> FALSE, sync |-> NewSynchronizer, calls |-> <<>>, warned |-> TRUE]
    ELSE LET sync2 == IF sync.is_synced THEN sync
                      ELSE TryToSyncBook(sync, message, fetch)
         IN  [raised |-> FALSE, sync |-> sync2,
              calls |-> SaveCalls(sync, sync2, message, lts),
              warned |-> ~sync2.is_synced]

\* SpotDepthETL._handle_message: what the handler does with a deserialized update;
\* raised tells whether it threw, calls are its _save_update calls, warned whether
\* it logged a warning (_is_consistent on a gap, try_to_sync_book on each failure)
HandleMessage(sync, last, message, fetch, lts) ==
    IF ~IsConsistent(last, message)
    THEN [raised |-> TRUE, sync |-> sync, calls |-> <<>>, warned |-> TRUE]
    ELSE LET sync2 == IF sync.is_synced THEN sync
                      ELSE TryToSyncBook(sync, message, fetch)
         IN  [raised |-> FALSE, sync |-> sync2,
              calls |-> SaveCalls(sync, sync2, message, lts),
              warned |-> ~sync2.is_synced]

\* SpotDepthETL._deserialize_message on a depthUpdate frame
DeserializeMessage(frame, lts) ==
    [ timestamp       |-> frame.E,
      local_timestamp |-> lts,
      bids            |-> frame.b,
      asks            |-> frame.a,
      first_update_id |-> frame.U,
      last_update_id  |-> frame.u ]

\* _deserialize_message whose except clause swallows the exception without logging
DeserializeFrameSilent(frame, lts) ==
    IF ~frame.json THEN [res |-> <<>>, warned |-> FALSE]
    ELSE IF "e" \in DOMAIN frame.obj /\ frame.obj.e = "depthUpdate"
         THEN IF {"E", "b", "a", "U", "u"} \subseteq DOMAIN frame.obj
              THEN [res |-> << DeserializeMessage(frame.obj, lts) >>, warned |-> FALSE]
              ELSE [res |-> <<>>, warned |-> FALSE]
         ELSE [res |-> <<>>, warned |-> FALSE]

\* _deserialize_message that reads update['e'] without testing that the key exists
DeserializeFrameUnguarded(frame, lts) ==
    IF ~frame.json THEN [res |-> <<>>, warned |-> TRUE]
    ELSE IF "e" \notin DOMAIN frame.obj THEN [res |-> <<>>, warned |-> TRUE]
    ELSE IF frame.obj.e = "depthUpdate"
         THEN IF {"E", "b", "a", "U", "u"} \subseteq DOMAIN frame.obj
              THEN [res |-> << DeserializeMessage(frame.obj, lts) >>, warned |-> FALSE]
              ELSE [res |-> <<>>, warned |-> TRUE]
         ELSE [res |-> <<>>, warned |-> FALSE]

\* SpotDepthETL._deserialize_message on any text frame: res is <<>> for None;
\* warned tells whether the except branch logged a warning (json.loads failed,
\* or a depthUpdate lacks one of the keys that are read)
DeserializeFrame(frame, lts) ==
    IF ~frame.json THEN [res |-> <<>>, warned |-> TRUE]
    ELSE IF "e" \in DOMAIN frame.obj /\ frame.obj.e = "depthUpdate"
         THEN IF {"E", "b", "a", "U", "u"} \subseteq DOMAIN frame.obj
              THEN [res |-> << DeserializeMessage(frame.obj, lts) >>, warned |-> FALSE]
              ELSE [res |-> <<>>, warned |-> TRUE]
         ELSE [res |-> <<>>, warned |-> FALSE]

(* ---------------------------- environment ------------------------------ *)
\* the other text frames the depth stream may carry: a subscription
\* acknowledgement without event field, another event, text that is not JSON, and
\* a depthUpdate without its ids
OtherStreamFrames ==
    { [json |-> TRUE,  obj |-> [result |-> "null", id |-> 1]],
      [json |-> TRUE,  obj |-> [e |-> "trade", E |-> etime]],
      [json |-> FALSE, obj |-> [text |-> "not json"]],
      [json |-> TRUE,  obj |-> [e |-> "depthUpdate", E |-> etime]] }

\* the outcomes of binance_client.depth(): an exception, or a book with some lastUpdateId
FetchOutcomes ==
    {<<>>} \cup { << [lastUpdateId |-> l, bids |-> SnapshotBids, asks |-> SnapshotAsks] >> :
                  l \in 0..MaxId }

\* int(time.time() * 1_000) at the arrival of a frame
ClockReadings == { t \in now..(now + 1) : t <= MaxTime }

\* the exchange's event time of the next frame
EventTimes == { t \in etime..(etime + 1) : t <= MaxETime }

\* the next frames of the diff-depth stream: ids increase along the stream, an update
\* covers 1 or 2 ids, and up to one id may be missing between two frames; the
\* exchange's event time stays at etime along the stream (it is only copied into
\* the rows)
DepthFrames ==
    { [e |-> "depthUpdate", E |-> etime, U |-> f, u |-> l, b |-> p.bids, a |-> p.asks] :
        f \in (wire + 1)..(wire + 2), l \in (wire + 1)..MaxId, p \in Payloads }

(* ---------------------------- state machine ---------------------------- *)
InitExceptConfig ==
    /\ pc = "constructed"
    /\ local_timestamp = 0
    /\ last_book_update = <<>>
    /\ book_synchronizer = NewSynchronizer
    /\ storage = NewStorage
    /\ total_messages = 0
    /\ now = 1
    /\ etime = 0
    /\ wire = 0
    /\ raised = 0
    /\ arrived = <<>>
    /\ handed = <<>>
    /\ trade_frames = <<>>
    /\ handed_trades = <<>>
    /\ synced_at = 0
    /\ warned = FALSE
    /\ etls = <<>>
    /\ sinks = <<>>
    /\ main = [pc |-> "build", i |-> 1, exit_code |-> <<>>]
    /\ handler = [installed |-> FALSE, running |-> FALSE, i |-> 1, signals |-> 0]
    /\ in_call = [depth  |-> [pc |-> "idle", rows |-> <<>>, df |-> <<>>],
                  trades |-> [pc |-> "idle", rows |-> <<>>, df |-> <<>>]]
    /\ etl_book_updates = <<>>

\* a single pipeline on its own: no supervisor, no configuration
Init == InitExceptConfig /\ config = <<>>

\* SpotDepthETL.start
Start ==
    /\ pc = "constructed"
    /\ pc' = "running"
    /\ UNCHANGED << local_timestamp, last_book_update, book_synchronizer, storage,
                    total_messages, now, etime, wire, raised, arrived, handed,
                    trade_frames, handed_trades, synced_at, warned, supervisor_vars,
                    in_call,
                    etl_book_updates >>

\* SpotDepthETL.stop -> BinanceETL.stop: closes the websocket, logs the stats
Stop ==
    /\ pc = "running"
    /\ pc' = "stopped"
    /\ UNCHANGED << local_timestamp, last_book_update, book_synchronizer, storage,
                    total_messages, now, etime, wire, raised, arrived, handed,
                    trade_frames, handed_trades, synced_at, warned, supervisor_vars,
                    in_call,
                    etl_book_updates >>

\* BinanceETL._process_message on a depthUpdate frame
DepthUpdateFrameFrom(frames) ==
    /\ pc = "running"
    /\ \E frame \in frames, lts \in ClockReadings :
         /\ frame.U <= frame.u /\ frame.u <= frame.U + 1
         /\ \E fetch \in IF /\ ~book_synchronizer.is_synced
                            /\ book_synchronizer.initial_book_snapshot = <<>>
                            /\ IsConsistent(last_book_update,
                                            DeserializeMessage(frame, lts))
                         THEN FetchOutcomes ELSE {<<>>} :
              LET message == DeserializeMessage(frame, lts)
                  h == HandleMessage(book_synchronizer, last_book_update,
                                     message, fetch, lts)
                  n == Len(arrived) + 1
              IN  /\ now' = lts
                  /\ local_timestamp' = lts
                  /\ etime' = frame.E
                  /\ wire' = frame.u
                  /\ arrived' = Append(arrived, message)
                  /\ last_book_update' = <<message>>
                  /\ book_synchronizer' = h.sync
                  /\ storage' = SaveAll(storage, h.calls)
                  /\ handed' = handed \o [i \in 1..Len(h.calls) |->
                                   [at |-> n,
                                    is_snapshot |-> h.calls[i].is_initial_snapshot,
                                    update |-> h.calls[i].update]]
                  /\ raised' = IF h.raised THEN raised + 1 ELSE raised
                  /\ total_messages' = IF h.raised THEN total_messages
                                       ELSE total_messages + 1
                  /\ synced_at' = IF ~book_synchronizer.is_synced /\ h.sync.is_synced
                                  THEN n ELSE synced_at
                  /\ warned' = h.warned
    /\ UNCHANGED << pc, trade_frames, handed_trades, supervisor_vars, in_call,
                    etl_book_updates >>

DepthUpdateFrame == DepthUpdateFrameFrom(DepthFrames)

\* BinanceETL._process_message on a frame _deserialize_message maps to None:
\* the handler returns right after refreshing local_timestamp
OtherDepthFrameOn(frame, lts) ==
    /\ pc = "running"
    /\ DeserializeFrame(frame, lts).res = <<>>
    /\ now' = lts
    /\ local_timestamp' = lts
    /\ warned' = DeserializeFrame(frame, lts).warned
    /\ UNCHANGED << pc, last_book_update, book_synchronizer, storage, total_messages,
                    etime, wire, raised, arrived, handed, trade_frames, handed_trades,
                    synced_at, supervisor_vars, in_call,
                    etl_book_updates >>

OtherDepthFrame ==
    \E frame \in OtherStreamFrames, lts \in ClockReadings : OtherDepthFrameOn(frame, lts)

Next == Start \/ DepthUpdateFrame \/ OtherDepthFrame \/ Stop

Spec == Init /\ [][Next]_vars

(* ---------------------------- a contiguous stream that keeps arriving --- *)
\* the next frames of a stream without gaps: every frame after the first starts
\* at the id that follows the previous frame
ChainFrames == { f \in DepthFrames : arrived = <<>> \/ f.U = wire + 1 }

ChainDepthUpdateFrame == DepthUpdateFrameFrom(ChainFrames)

ChainNext == Start \/ ChainDepthUpdateFrame

\* the stream has a next frame for the running pipeline: the enabling condition
\* of ChainDepthUpdateFrame
FramePending == pc = "running" /\ wire < MaxId

\* the pipeline is started and the transport keeps delivering the frames of the
\* stream for as long as the stream has any: weak fairness of Start and of
\* ChainDepthUpdateFrame, the latter with its enabling condition written out
ChainSpec ==
    /\ Init /\ [][ChainNext]_vars
    /\ WF_pc(Start)
    /\ ([]<>(~FramePending) \/ []<><<ChainDepthUpdateFrame>>_wire)

(* ---------------------------- trades pipeline -------------------------- *)
\* the side taken from the m flag without inverting it
TradeSideNotInverted(m) == IF m THEN "buy" ELSE "sell"

\* the aggressor side computed by _deserialize_trade_message
TradeSide(m) == IF m THEN "sell" ELSE "buy"

\* SpotTradesETL._deserialize_trade_message: <<>> is None (json.loads or a missing
\* key raised and was logged, or the event is not a trade)
DeserializeTradeMessage(frame, lts) ==
    IF ~frame.json THEN <<>>
    ELSE IF "e" \notin DOMAIN frame.obj THEN <<>>
    ELSE IF frame.obj.e = "trade"
         THEN << [ timestamp       |-> frame.obj.E,
                   local_timestamp |-> lts,
                   id              |-> frame.obj.t,
                   price           |-> frame.obj.p,
                   quantity        |-> frame.obj.q,
                   side            |-> TradeSide(frame.obj.m) ] >>
         ELSE <<>>

\* SpotTradesETL._save_trade: a DataFrame of one row
SaveTrade(st, trade) == AddTrades(st, <<trade>>)

\* the next frames of the trade stream: a trade, another event, a subscription
\* acknowledgement without event field, and text that is not JSON
TradeStreamFrames ==
    { [json |-> TRUE,
       obj  |-> [e |-> "trade", E |-> t, t |-> Len(trade_frames) + 1,
                 p |-> "100", q |-> "3", m |-> m]] :
        t \in EventTimes, m \in BOOLEAN }
    \cup { [json |-> TRUE,  obj |-> [e |-> "aggTrade", E |-> etime]],
           [json |-> TRUE,  obj |-> [result |-> "null", id |-> 1]],
           [json |-> FALSE, obj |-> [text |-> "not json"]] }

\* SpotTradesETL.start
TradesStart ==
    /\ pc = "constructed"
    /\ pc' = "running"
    /\ UNCHANGED << local_timestamp, last_book_update, book_synchronizer, storage,
                    total_messages, now, etime, wire, raised, arrived, handed,
                    trade_frames, handed_trades, synced_at, warned, supervisor_vars,
                    in_call,
                    etl_book_updates >>

\* SpotTradesETL.stop: closes the websocket, logs the stats
TradesStop ==
    /\ pc = "running"
    /\ pc' = "stopped"
    /\ UNCHANGED << local_timestamp, last_book_update, book_synchronizer, storage,
                    total_messages, now, etime, wire, raised, arrived, handed,
                    trade_frames, handed_trades, synced_at, warned, supervisor_vars,
                    in_call,
                    etl_book_updates >>

\* SpotTradesETL._process_message
TradeFrame ==
    /\ pc = "running"
    /\ Len(trade_frames) < MaxTradeId
    /\ \E frame \in TradeStreamFrames, lts \in ClockReadings :
         LET trade == DeserializeTradeMessage(frame, lts)
         IN  /\ now' = lts
             /\ local_timestamp' = lts
             /\ etime' = IF frame.json /\ "E" \in DOMAIN frame.obj
                         THEN frame.obj.E ELSE etime
             /\ trade_frames' = Append(trade_frames, frame)
             /\ warned' = (~frame.json \/ "e" \notin DOMAIN frame.obj)
             /\ IF trade = <<>>
                THEN UNCHANGED << storage, handed_trades, total_messages >>
                ELSE /\ storage' = SaveTrade(storage, trade[1])
                     /\ handed_trades' = Append(handed_trades, <<trade[1]>>)
                     /\ total_messages' = total_messages + 1
    /\ UNCHANGED << pc, last_book_update, book_synchronizer, wire, raised, arrived,
                    handed, synced_at, supervisor_vars, in_call,
                    etl_book_updates >>

TradesNext == TradesStart \/ TradeFrame \/ TradesStop

TradeSpec == Init /\ [][TradesNext]_vars

(* ---------------------------- supervisor ------------------------------- *)
\* the subscriptions a configuration may list (exchange.market.symbol.event_type)
Events ==
    { [market |-> "spot", symbol |-> "btcusdt", event_type |-> "depth"],
      [market |-> "spot", symbol |-> "btcusdt", event_type |-> "trade"],
      [market |-> "spot", symbol |-> "ethusdt", event_type |-> "depth"] }

\* config['events']: one to MaxEtls subscriptions, none listed twice
Configs ==
    { c \in UNION { [1..n -> Events] : n \in 1..MaxEtls } :
        \A i, j \in DOMAIN c : c[i] = c[j] => i = j }

\* one websocket client, hence one transport thread, for all the pipelines
SharedClient(n) == 1

\* BinanceETL.__init__: the n-th pipeline built creates its own
\* SpotWebsocketStreamClient, which runs its own transport thread
WebsocketClient(n) == n

\* get_storage_provider: a new CsvStorage for (market, symbol); only the number of
\* rows handed over per topic is kept here
GetStorageProvider(market, symbol) ==
    [market |-> market, symbol |-> symbol, depth_updates |-> 0, trades |-> 0]

\* SpotDepthETL(symbol, storage) / SpotTradesETL(symbol, storage): storage and client
\* are instance numbers; calls is the history of start/stop calls on the pipeline
NewEtl(event, storage_instance, client) ==
    [ market     |-> event.market,
      symbol     |-> event.symbol,
      event_type |-> event.event_type,
      storage    |-> storage_instance,
      client     |-> client,
      calls      |-> <<>>,
      in_handler |-> FALSE,
      frames     |-> 0,
      raised     |-> 0,
      rows       |-> 0 ]

\* the transport of the pipeline delivers frames: subscribed by start, not closed
\* by stop
Subscribed(etl) ==
    /\ \E i \in DOMAIN etl.calls : etl.calls[i] = "start"
    /\ \A i \in DOMAIN etl.calls : etl.calls[i] # "stop"

\* the loop of the signal handler leaves after the first pipeline
StopsDoneAfterFirst(h, n) == h.i > 1

\* "for etl in etls: etl.stop()" of handle_shutdown_signal has gone through the list
StopsDone(h, n) == h.i > n

SupervisorInit == InitExceptConfig /\ config \in Configs

\* one iteration of get_etls: get_etl builds the sink, then the pipeline
GetEtl ==
    /\ main.pc = "build"
    /\ main.i <= Len(config)
    /\ LET event == config[main.i]
       IN  /\ sinks' = Append(sinks, GetStorageProvider(event.market, event.symbol))
           /\ etls' = Append(etls, NewEtl(event, Len(sinks) + 1,
                                          WebsocketClient(Len(etls) + 1)))
    /\ main' = [main EXCEPT !.i = @ + 1]
    /\ UNCHANGED << pc, local_timestamp, last_book_update, book_synchronizer, storage,
                    total_messages, now, etime, wire, raised, arrived, handed,
                    trade_frames, handed_trades, synced_at, warned, config, handler,
                    in_call,
                    etl_book_updates >>

\* a main that goes from the build loop to the start loop without calling
\* register_signal_handlers
StartWithoutSignalHandlers ==
    /\ main.pc = "build"
    /\ main.i > Len(config)
    /\ main' = [main EXCEPT !.pc = "start", !.i = 1]
    /\ UNCHANGED << pc, local_timestamp, last_book_update, book_synchronizer, storage,
                    total_messages, now, etime, wire, raised, arrived, handed,
                    trade_frames, handed_trades, synced_at, warned, config, etls, sinks,
                    handler, in_call,
                    etl_book_updates >>

\* register_signal_handlers(etls), reached once every pipeline is built
RegisterSignalHandlers ==
    /\ main.pc = "build"
    /\ main.i > Len(config)
    /\ handler' = [handler EXCEPT !.installed = TRUE]
    /\ main' = [main EXCEPT !.pc = "start", !.i = 1]
    /\ UNCHANGED << pc, local_timestamp, last_book_update, book_synchronizer, storage,
                    total_messages, now, etime, wire, raised, arrived, handed,
                    trade_frames, handed_trades, synced_at, warned, config, etls, sinks,
                    in_call,
                    etl_book_updates >>

\* one iteration of "for etl in etls: etl.start()"; the main thread does not run
\* while the signal handler is on its stack
StartEtl ==
    /\ main.pc = "start"
    /\ ~handler.running
    /\ main.i <= Len(etls)
    /\ etls' = [etls EXCEPT ![main.i].calls = Append(@, "start")]
    /\ main' = [main EXCEPT !.i = @ + 1]
    /\ UNCHANGED << pc, local_timestamp, last_book_update, book_synchronizer, storage,
                    total_messages, now, etime, wire, raised, arrived, handed,
                    trade_frames, handed_trades, synced_at, warned, config, sinks,
                    handler, in_call,
                    etl_book_updates >>

\* SIGINT or SIGTERM is delivered: handle_shutdown_signal starts (again, from the
\* first pipeline, if it was already running) once installed; before that the
\* default disposition ends the process, with a non-zero status
Signal ==
    /\ main.pc # "exited"
    /\ handler.signals < MaxSignals
    /\ IF handler.installed
       THEN /\ handler' = [handler EXCEPT !.running = TRUE, !.i = 1,
                                          !.signals = @ + 1]
            /\ main' = main
       ELSE /\ handler' = [handler EXCEPT !.signals = @ + 1]
            /\ main' = [main EXCEPT !.pc = "exited", !.exit_code = << 130 >>]
    /\ UNCHANGED << pc, local_timestamp, last_book_update, book_synchronizer, storage,
                    total_messages, now, etime, wire, raised, arrived, handed,
                    trade_frames, handed_trades, synced_at, warned, config, etls, sinks,
                    in_call,
                    etl_book_updates >>

\* one iteration of "for etl in etls: etl.stop()" in handle_shutdown_signal
HandlerStop ==
    /\ main.pc # "exited"
    /\ handler.running
    /\ ~StopsDone(handler, Len(etls))
    /\ etls' = [etls EXCEPT ![handler.i].calls = Append(@, "stop")]
    /\ handler' = [handler EXCEPT !.i = @ + 1]
    /\ UNCHANGED << pc, local_timestamp, last_book_update, book_synchronizer, storage,
                    total_messages, now, etime, wire, raised, arrived, handed,
                    trade_frames, handed_trades, synced_at, warned, config, sinks, main,
                    in_call,
                    etl_book_updates >>

\* sys.exit(0) at the end of handle_shutdown_signal
HandlerExit ==
    /\ main.pc # "exited"
    /\ handler.running
    /\ StopsDone(handler, Len(etls))
    /\ handler' = [handler EXCEPT !.running = FALSE]
    /\ main' = [main EXCEPT !.pc = "exited", !.exit_code = << 0 >>]
    /\ UNCHANGED << pc, local_timestamp, last_book_update, book_synchronizer, storage,
                    total_messages, now, etime, wire, raised, arrived, handed,
                    trade_frames, handed_trades, synced_at, warned, config, etls, sinks,
                    in_call,
                    etl_book_updates >>

\* the number of frames delivered so far to the first n pipelines
RECURSIVE FramesDelivered(_)
FramesDelivered(n) == IF n = 0 THEN 0 ELSE etls[n].frames + FramesDelivered(n - 1)

\* the transport thread of pipeline j calls _process_message with the next frame;
\* the thread is taken until the handler returns (it may block on the snapshot
\* fetch or on a flush)
FrameArrives(j) ==
    /\ main.pc # "exited"
    /\ Subscribed(etls[j])
    /\ FramesDelivered(Len(etls)) < MaxFrames
    /\ \A k \in 1..Len(etls) : etls[k].client = etls[j].client => ~etls[k].in_handler
    /\ etls' = [etls EXCEPT ![j].in_handler = TRUE, ![j].frames = @ + 1]
    /\ UNCHANGED << pc, local_timestamp, last_book_update, book_synchronizer, storage,
                    total_messages, now, etime, wire, raised, arrived, handed,
                    trade_frames, handed_trades, synced_at, warned, config, sinks, main,
                    handler, in_call,
                    etl_book_updates >>

\* what _process_message of pipeline j may have done when it returns: handed a row
\* to its sink, kept the update in the pre-sync buffer or ignored the frame, or
\* (depth only) raised on an inconsistent update
Outcomes(etl) ==
    IF etl.event_type = "depth" THEN {"saved", "kept", "raised"} ELSE {"saved", "kept"}

\* _process_message of pipeline j returns or raises; the transport catches the
\* exception and goes on reading
HandlerReturns(j) ==
    /\ main.exit_code # << 130 >>
    /\ etls[j].in_handler
    /\ \E outcome \in Outcomes(etls[j]) :
         /\ etls' = [etls EXCEPT ![j].in_handler = FALSE,
                                 ![j].rows = IF outcome = "saved" THEN @ + 1 ELSE @,
                                 ![j].raised = IF outcome = "raised" THEN @ + 1 ELSE @]
         /\ sinks' = IF outcome # "saved" THEN sinks
                     ELSE IF etls[j].event_type = "depth"
                          THEN [sinks EXCEPT ![etls[j].storage].depth_updates = @ + 1]
                          ELSE [sinks EXCEPT ![etls[j].storage].trades = @ + 1]
    /\ UNCHANGED << pc, local_timestamp, last_book_update, book_synchronizer, storage,
                    total_messages, now, etime, wire, raised, arrived, handed,
                    trade_frames, handed_trades, synced_at, warned, config, main,
                    handler, in_call,
                    etl_book_updates >>

FrameArrivesAtSome == \E j \in 1..Len(etls) : FrameArrives(j)

HandlerReturnsInSome == \E j \in 1..Len(etls) : HandlerReturns(j)

SupervisorNext ==
    \/ GetEtl
    \/ RegisterSignalHandlers
    \/ StartEtl
    \/ Signal
    \/ HandlerStop
    \/ HandlerExit
    \/ FrameArrivesAtSome
    \/ HandlerReturnsInSome

SupervisorSpec == SupervisorInit /\ [][SupervisorNext]_vars

(* ---------------------------- the sink driven directly ----------------- *)
\* the updates a caller may pass to _save_update: one or two price levels,
\* stamped with the number of the call so that every row is distinguishable
SinkUpdates ==
    { [ timestamp       |-> Len(handed) + Len(handed_trades) + 1,
        local_timestamp |-> Len(handed) + Len(handed_trades) + 1,
        bids            |-> p.bids,
        asks            |-> p.asks ] :
        p \in Payloads }

\* a call of _save_update, hence of add_depth_updates
SinkAddDepthUpdates ==
    /\ Len(handed) + Len(handed_trades) < MaxCalls
    /\ \E update \in SinkUpdates :
         /\ storage' = SaveUpdate(storage, update, FALSE)
         /\ handed' = Append(handed, [at |-> 0, is_snapshot |-> FALSE, update |-> update])
    /\ UNCHANGED << pc, local_timestamp, last_book_update, book_synchronizer,
                    total_messages, now, etime, wire, raised, arrived, trade_frames,
                    handed_trades, synced_at, warned, supervisor_vars, in_call,
                    etl_book_updates >>

\* a call of _save_trade, hence of add_trades
SinkAddTrades ==
    /\ Len(handed) + Len(handed_trades) < MaxCalls
    /\ \E m \in BOOLEAN :
         LET trade == [ timestamp       |-> Len(handed) + Len(handed_trades) + 1,
                        local_timestamp |-> Len(handed) + Len(handed_trades) + 1,
                        id              |-> Len(handed_trades) + 1,
                        price           |-> "100",
                        quantity        |-> "3",
                        side            |-> TradeSide(m) ]
         IN  /\ storage' = SaveTrade(storage, trade)
             /\ handed_trades' = Append(handed_trades, <<trade>>)
    /\ UNCHANGED << pc, local_timestamp, last_book_update, book_synchronizer,
                    total_messages, now, etime, wire, raised, arrived, handed,
                    trade_frames, synced_at, warned, supervisor_vars, in_call,
                    etl_book_updates >>

SinkNext == SinkAddDepthUpdates \/ SinkAddTrades

SinkSpec == Init /\ [][SinkNext]_vars

(* ---------------------------- the files of one (symbol, market) --------- *)
\* The two topic files of btcusdt.spot from the start of the process on: storage
\* holds their content, the depth buffer and counter of the sink of the depth
\* pipeline, and the trades buffer and counter of the sink of the trade pipeline
\* (get_etl gives each pipeline its own CsvStorage; both point at the same paths).
\* The files may exist already, left by an earlier run.
LeftByEarlierRun ==
    [NewStorage EXCEPT !.depth_csv  = << HeaderLine(DepthColumns) >>,
                       !.trades_csv = << HeaderLine(TradeColumns) >>]

LogInit ==
    /\ pc = "constructed"
    /\ local_timestamp = 0
    /\ last_book_update = <<>>
    /\ book_synchronizer = NewSynchronizer
    /\ storage \in {NewStorage, LeftByEarlierRun}
    /\ total_messages = 0
    /\ now = 1
    /\ etime = 0
    /\ wire = 0
    /\ raised = 0
    /\ arrived = <<>>
    /\ handed = <<>>
    /\ trade_frames = <<>>
    /\ handed_trades = <<>>
    /\ synced_at = 0
    /\ warned = FALSE
    /\ etls = <<>>
    /\ sinks = <<>>
    /\ main = [pc |-> "build", i |-> 1, exit_code |-> <<>>]
    /\ handler = [installed |-> FALSE, running |-> FALSE, i |-> 1, signals |-> 0]
    /\ in_call = [depth  |-> [pc |-> "idle", rows |-> <<>>, df |-> <<>>],
                  trades |-> [pc |-> "idle", rows |-> <<>>, df |-> <<>>]]
    /\ etl_book_updates = <<>>
    /\ config \in Configs

\* CsvStorage._create_file_with_directories on both paths: open(path, 'w')
CreateFiles(st) == [st EXCEPT !.depth_csv = <<>>, !.trades_csv = <<>>]

\* one iteration of get_etls, with the files: CsvStorage.__init__ creates the two
\* files of the subscription's (symbol, market) empty
LogGetEtl ==
    /\ main.pc = "build"
    /\ main.i <= Len(config)
    /\ LET event == config[main.i]
       IN  /\ sinks' = Append(sinks, GetStorageProvider(event.market, event.symbol))
           /\ etls' = Append(etls, NewEtl(event, Len(sinks) + 1,
                                          WebsocketClient(Len(etls) + 1)))
           /\ storage' = IF event.market = "spot" /\ event.symbol = "btcusdt"
                         THEN CreateFiles(storage) ELSE storage
    /\ main' = [main EXCEPT !.i = @ + 1]
    /\ UNCHANGED << pc, local_timestamp, last_book_update, book_synchronizer,
                    total_messages, now, etime, wire, raised, arrived, handed,
                    trade_frames, handed_trades, synced_at, warned, config, handler,
                    in_call,
                    etl_book_updates >>

\* the started pipeline of btcusdt.spot for event_type, if the configuration has one
StartedPipeline(event_type) ==
    \E j \in 1..Len(etls) :
        /\ etls[j].market = "spot"
        /\ etls[j].symbol = "btcusdt"
        /\ etls[j].event_type = event_type
        /\ Subscribed(etls[j])

\* the depth pipeline of btcusdt.spot hands an update to its sink
LogAddDepthUpdates == StartedPipeline("depth") /\ SinkAddDepthUpdates

\* the trade pipeline of btcusdt.spot hands a trade to its sink
LogAddTrades == StartedPipeline("trade") /\ SinkAddTrades

LogNext ==
    \/ LogGetEtl
    \/ RegisterSignalHandlers
    \/ StartEtl
    \/ LogAddDepthUpdates
    \/ LogAddTrades

LogSpec == LogInit /\ [][LogNext]_vars

(* ---------------------------- incremental book pipeline ----------------- *)
\* IncrementalBookETL: the variant that keeps accepted updates in its own list
\* book_updates (etl_book_updates here) and saves them in batches of
\* storage_batch_size. handed is the history of what was passed to save_snapshot
\* and save_updates. At the sync the pipeline takes the synchronizer's list over
\* by reference, so until _save_updates rebinds book_updates an append is seen
\* through both names.
IncrementalStart == Start

IncrementalStop == Stop

\* IncrementalBookETL._should_save_updates
ShouldSaveUpdates(updates) == Len(updates) = StorageBatchSize

\* IncrementalBookETL._process_message on a depth update frame
IncrementalFrame ==
    /\ pc = "running"
    /\ \E frame \in DepthFrames, lts \in ClockReadings :
         /\ frame.U <= frame.u /\ frame.u <= frame.U + 1
         /\ \E fetch \in IF /\ ~book_synchronizer.is_synced
                            /\ book_synchronizer.initial_book_snapshot = <<>>
                            /\ IsConsistent(last_book_update,
                                            DeserializeMessage(frame, lts))
                         THEN FetchOutcomes ELSE {<<>>} :
              LET update == DeserializeMessage(frame, lts)
                  n      == Len(arrived) + 1
                  sync2  == TryToSyncBook(book_synchronizer, update, fetch)
                  shared == etl_book_updates = book_synchronizer.book_updates
                  after  == Append(etl_book_updates, update)
              IN  /\ now' = lts
                  /\ local_timestamp' = lts
                  /\ etime' = frame.E
                  /\ wire' = frame.u
                  /\ arrived' = Append(arrived, update)
                  /\ last_book_update' = <<update>>
                  /\ IF ~IsConsistent(last_book_update, update)
                     THEN /\ raised' = raised + 1
                          /\ warned' = TRUE
                          /\ UNCHANGED << book_synchronizer, etl_book_updates, handed,
                                          synced_at >>
                     ELSE IF ~book_synchronizer.is_synced
                     THEN /\ book_synchronizer' = sync2
                          /\ warned' = ~sync2.is_synced
                          /\ raised' = raised
                          /\ IF sync2.is_synced
                             THEN /\ etl_book_updates' = sync2.book_updates
                                  /\ handed' = Append(handed,
                                        [at |-> n, is_snapshot |-> TRUE,
                                         update |-> MappedSnapshot(
                                             sync2.initial_book_snapshot[1], lts)])
                                  /\ synced_at' = n
                             ELSE UNCHANGED << etl_book_updates, handed, synced_at >>
                     ELSE /\ book_synchronizer' =
                                IF shared
                                THEN [book_synchronizer EXCEPT !.book_updates = after]
                                ELSE book_synchronizer
                          /\ warned' = FALSE
                          /\ raised' = raised
                          /\ synced_at' = synced_at
                          /\ IF ShouldSaveUpdates(after)
                             THEN /\ handed' = handed \o [i \in 1..Len(after) |->
                                        [at |-> n, is_snapshot |-> FALSE,
                                         update |-> after[i]]]
                                  /\ etl_book_updates' = <<>>
                             ELSE /\ handed' = handed
                                  /\ etl_book_updates' = after
    /\ UNCHANGED << pc, storage, total_messages, trade_frames, handed_trades,
                    supervisor_vars, in_call >>

IncrementalNext == IncrementalStart \/ IncrementalFrame \/ IncrementalStop

IncrementalSpec == Init /\ [][IncrementalNext]_vars

(* ---------------------------- one sink, two calling threads ------------ *)
\* the statements of add_depth_updates and add_trades as separate steps of two
\* threads that hold the same sink: the depth pipeline's transport thread calls
\* add_depth_updates, the trade pipeline's calls add_trades. The statement a
\* thread executes next: "concat" (pd.concat reads the buffer), "assign" (the result
\* is stored in the buffer), "test" (the length test), "save" (_save_*), "count"
\* (batches_saved += 1), "reset" (the buffer is replaced by an empty DataFrame).

\* a reset that empties the buffers of both topics
ResetBuffers(st) == [st EXCEPT !.depth_updates_df = <<>>, !.trades_df = <<>>]

\* self.depth_updates_df = pd.DataFrame()
ResetDepthUpdates(st) == [st EXCEPT !.depth_updates_df = <<>>]

\* self.trades_df = pd.DataFrame()
ResetTrades(st) == [st EXCEPT !.trades_df = <<>>]

\* the depth thread enters add_depth_updates with the rows of one update
CallAddDepthUpdates ==
    /\ in_call.depth.pc = "idle"
    /\ Len(handed) + Len(handed_trades) < MaxCalls
    /\ \E update \in SinkUpdates :
         /\ in_call' = [in_call EXCEPT !.depth.pc = "concat",
                                       !.depth.rows = UpdateRows(update, FALSE)]
         /\ handed' = Append(handed, [at |-> 0, is_snapshot |-> FALSE, update |-> update])
    /\ UNCHANGED << pc, local_timestamp, last_book_update, book_synchronizer, storage,
                    total_messages, now, etime, wire, raised, arrived, trade_frames,
                    handed_trades, synced_at, warned, supervisor_vars,
                    etl_book_updates >>

\* the trade thread enters add_trades with one trade
CallAddTrades ==
    /\ in_call.trades.pc = "idle"
    /\ Len(handed) + Len(handed_trades) < MaxCalls
    /\ LET trade == [ timestamp       |-> Len(handed) + Len(handed_trades) + 1,
                      local_timestamp |-> Len(handed) + Len(handed_trades) + 1,
                      id              |-> Len(handed_trades) + 1,
                      price           |-> "100",
                      quantity        |-> "3",
                      side            |-> TradeSide(TRUE) ]
       IN  /\ in_call' = [in_call EXCEPT !.trades.pc = "concat",
                                         !.trades.rows = << trade >>]
           /\ handed_trades' = Append(handed_trades, << trade >>)
    /\ UNCHANGED << pc, local_timestamp, last_book_update, book_synchronizer, storage,
                    total_messages, now, etime, wire, raised, arrived, handed,
                    trade_frames, synced_at, warned, supervisor_vars,
                    etl_book_updates >>

\* the next statement of add_depth_updates
StepAddDepthUpdates ==
    /\ in_call.depth.pc # "idle"
    /\ LET c == in_call.depth
       IN  \/ /\ c.pc = "concat"
              /\ in_call' = [in_call EXCEPT !.depth.pc = "assign",
                                            !.depth.df = storage.depth_updates_df \o c.rows]
              /\ storage' = storage
           \/ /\ c.pc = "assign"
              /\ storage' = [storage EXCEPT !.depth_updates_df = c.df]
              /\ in_call' = [in_call EXCEPT !.depth.pc = "test", !.depth.df = <<>>]
           \/ /\ c.pc = "test"
              /\ in_call' = [in_call EXCEPT !.depth.pc =
                               IF Len(storage.depth_updates_df) >= BatchSize
                               THEN "save" ELSE "idle"]
              /\ storage' = storage
           \/ /\ c.pc = "save"
              /\ storage' = SaveDepthUpdates(storage)
              /\ in_call' = [in_call EXCEPT !.depth.pc = "count"]
           \/ /\ c.pc = "count"
              /\ storage' = [storage EXCEPT !.depth_updates_batches_saved = @ + 1]
              /\ in_call' = [in_call EXCEPT !.depth.pc = "reset"]
           \/ /\ c.pc = "reset"
              /\ storage' = ResetDepthUpdates(storage)
              /\ in_call' = [in_call EXCEPT !.depth.pc = "idle"]
    /\ UNCHANGED << pc, local_timestamp, last_book_update, book_synchronizer,
                    total_messages, now, etime, wire, raised, arrived, handed,
                    trade_frames, handed_trades, synced_at, warned, supervisor_vars,
                    etl_book_updates >>

\* the next statement of add_trades
StepAddTrades ==
    /\ in_call.trades.pc # "idle"
    /\ LET c == in_call.trades
       IN  \/ /\ c.pc = "concat"
              /\ in_call' = [in_call EXCEPT !.trades.pc = "assign",
                                            !.trades.df = storage.trades_df \o c.rows]
              /\ storage' = storage
           \/ /\ c.pc = "assign"
              /\ storage' = [storage EXCEPT !.trades_df = c.df]
              /\ in_call' = [in_call EXCEPT !.trades.pc = "test", !.trades.df = <<>>]
           \/ /\ c.pc = "test"
              /\ in_call' = [in_call EXCEPT !.trades.pc =
                               IF Len(storage.trades_df) >= BatchSize
                               THEN "save" ELSE "idle"]
              /\ storage' = storage
           \/ /\ c.pc = "save"
              /\ storage' = SaveTrades(storage)
              /\ in_call' = [in_call EXCEPT !.trades.pc = "count"]
           \/ /\ c.pc = "count"
              /\ storage' = [storage EXCEPT !.trades_batches_saved = @ + 1]
              /\ in_call' = [in_call EXCEPT !.trades.pc = "reset"]
           \/ /\ c.pc = "reset"
              /\ storage' = ResetTrades(storage)
              /\ in_call' = [in_call EXCEPT !.trades.pc = "idle"]
    /\ UNCHANGED << pc, local_timestamp, last_book_update, book_synchronizer,
                    total_messages, now, etime, wire, raised, arrived, handed,
                    trade_frames, handed_trades, synced_at, warned, supervisor_vars,
                    etl_book_updates >>

SharedSinkNext ==
    CallAddDepthUpdates \/ StepAddDepthUpdates \/ CallAddTrades \/ StepAddTrades

SharedSinkSpec == Init /\ [][SharedSinkNext]_vars

(* ======================================================================= *)
(* Properties                                                              *)
(* ======================================================================= *)
\* the rows of the row sets handed to add_depth_updates, in call order
HandedRows == Flatten([i \in 1..Len(handed) |->
                          UpdateRows(handed[i].update, handed[i].is_snapshot)])

\* the rows of the row sets handed to add_trades, in call order
HandedTradeRows == Flatten(handed_trades)

\* the data rows of a CSV file, in file order
FileRows(file) ==
    LET data == SelectSeq(file, LAMBDA line : ~line.header)
    IN  [i \in 1..Len(data) |-> data[i].row[1]]

HeaderCount(file) == Cardinality({ i \in 1..Len(file) : file[i].header })

\* the updates (snapshot aside) handed to the sink, in call order
HandedUpdates ==
    LET us == SelectSeq(handed, LAMBDA h : ~h.is_snapshot)
    IN  [i \in 1..Len(us) |-> us[i].update]

\* C1: when the synchronizer has picked u*, the frame that completed the sync has
\* handed to the sink the snapshot and then, exactly once each and in arrival
\* order, the updates that arrived up to that frame with
\* first_update_id >= u*.first_update_id (the sync-completing update once)
C1_NoLossPreSync ==
    book_synchronizer.is_synced =>
        LET ustar    == Head(book_synchronizer.book_updates)
            before   == SubSeq(arrived, 1, synced_at)
            expected == SelectSeq(before,
                           LAMBDA x : x.first_update_id >= ustar.first_update_id)
            got      == SelectSeq(handed, LAMBDA h : h.at = synced_at)
        IN  /\ Len(got) = Len(expected) + 1
            /\ got[1].is_snapshot
            /\ \A i \in 1..Len(expected) :
                  /\ ~got[i + 1].is_snapshot
                  /\ got[i + 1].update = expected[i]

\* C2: any two updates persisted consecutively (is_snapshot = false) chain:
\* the later one's first_update_id is the earlier one's last_update_id + 1
C2_SequenceContinuity ==
    \A i \in 1..(Len(HandedUpdates) - 1) :
        HandedUpdates[i + 1].first_update_id = HandedUpdates[i].last_update_id + 1

\* C3: every persisted row with is_snapshot = true has a local_timestamp strictly
\* smaller than that of the first persisted row with is_snapshot = false
C3_SnapshotFraming ==
    LET rows  == HandedRows
        lives == { j \in 1..Len(rows) : ~rows[j].is_snapshot }
    IN  lives # {} =>
            LET first == CHOOSE j \in lives : \A k \in lives : j <= k
            IN  \A i \in 1..Len(rows) :
                    rows[i].is_snapshot =>
                        rows[i].local_timestamp < rows[first].local_timestamp

\* C4: every row set handed to the sink is the initial snapshot or comes from an
\* update whose last_update_id is greater than the snapshot's lastUpdateId
C4_Coverage ==
    \A i \in 1..Len(handed) :
        ~handed[i].is_snapshot =>
            /\ book_synchronizer.initial_book_snapshot # <<>>
            /\ handed[i].update.last_update_id >
                   book_synchronizer.initial_book_snapshot[1].lastUpdateId

\* C4 witness: the pipeline synced and persisted updates although an update that
\* the snapshot already covers had arrived before
C4_Witness ==
    /\ book_synchronizer.is_synced
    /\ Len(HandedUpdates) >= 2
    /\ \E i \in 1..synced_at :
          arrived[i].last_update_id <=
              book_synchronizer.initial_book_snapshot[1].lastUpdateId

\* a step that delivers a depth update the consistency monitor finds inconsistent
InconsistentArrival ==
    /\ Len(arrived') = Len(arrived) + 1
    /\ ~IsConsistent(last_book_update, arrived'[Len(arrived')])

C6_HeaderOnce ==
    /\ HeaderCount(storage.depth_csv) = 1
    /\ storage.depth_csv[1].header
    /\ HeaderCount(storage.trades_csv) = 1
    /\ storage.trades_csv[1].header

\* C6 amended: a topic file is empty until its first flush (batches_saved = 0);
\* from the first flush on it holds exactly one header line, its first line
C6_HeaderOnceAfterFirstFlush ==
    /\ IF storage.depth_updates_batches_saved = 0
       THEN storage.depth_csv = <<>>
       ELSE /\ HeaderCount(storage.depth_csv) = 1
            /\ storage.depth_csv[1] = HeaderLine(DepthColumns)
    /\ IF storage.trades_batches_saved = 0
       THEN storage.trades_csv = <<>>
       ELSE /\ HeaderCount(storage.trades_csv) = 1
            /\ storage.trades_csv[1] = HeaderLine(TradeColumns)

\* C6 witness: the depth file has been flushed twice, the trades file not yet
C6_Witness ==
    /\ storage.depth_updates_batches_saved >= 2
    /\ Len(FileRows(storage.depth_csv)) >= 2 * BatchSize
    /\ storage.trades_batches_saved = 0
    /\ storage.trades_df # <<>>

\* C7: once stop() has returned, every row added to the sink is in its topic file
\* and the sink's buffers are empty
C7_StopDrains ==
    pc = "stopped" =>
        /\ storage.depth_updates_df = <<>>
        /\ storage.trades_df = <<>>
        /\ FileRows(storage.depth_csv) = HandedRows
        /\ FileRows(storage.trades_csv) = HandedTradeRows

\* the frames of the trade stream whose event type is "trade"
IsTradeEvent(frame) ==
    /\ frame.json
    /\ "e" \in DOMAIN frame.obj
    /\ frame.obj.e = "trade"

\* C8: every frame with event type "trade" adds exactly one row to the trades
\* sink, with side "sell" when m is true and "buy" when it is false; every other
\* frame adds no row
C8_TradeFidelity ==
    LET events == SelectSeq(trade_frames, IsTradeEvent)
    IN  /\ Len(handed_trades) = Len(events)
        /\ \A i \in 1..Len(events) :
              /\ Len(handed_trades[i]) = 1
              /\ handed_trades[i][1].id = events[i].obj.t
              /\ handed_trades[i][1].price = events[i].obj.p
              /\ handed_trades[i][1].quantity = events[i].obj.q
              /\ handed_trades[i][1].timestamp = events[i].obj.E
              /\ events[i].obj.m => handed_trades[i][1].side = "sell"
              /\ ~events[i].obj.m => handed_trades[i][1].side = "buy"
        /\ FileRows(storage.trades_csv) \o storage.trades_df = HandedTradeRows

\* C8 witness: a sell, a buy and a frame that is no trade event have been handled
C8_Witness ==
    /\ \E i \in 1..Len(trade_frames) : ~IsTradeEvent(trade_frames[i])
    /\ \E i \in 1..Len(trade_frames) :
          IsTradeEvent(trade_frames[i]) /\ trade_frames[i].obj.m
    /\ \E i \in 1..Len(trade_frames) :
          IsTradeEvent(trade_frames[i]) /\ ~trade_frames[i].obj.m
    /\ Len(HandedTradeRows) = 2

\* the flush policy on one topic over a step that appends rows: df, file, saved are
\* the buffer, the file and the batch counter before the call, the primed ones after
FlushPolicy(rows, df, file, saved, df2, file2, saved2) ==
    LET after == df \o rows
    IN  /\ Len(after) >= BatchSize =>
              /\ FileRows(file2) = FileRows(file) \o after
              /\ df2 = <<>>
              /\ saved2 = saved + 1
        /\ Len(after) < BatchSize =>
              /\ df2 = after
              /\ file2 = file
              /\ saved2 = saved
        /\ Len(df2) < BatchSize

\* C9: an add call flushes the topic buffer iff its length after appending is
\* >= batch_size; a flush writes all buffered rows in buffer order, empties the
\* buffer and increments batches_saved by 1; after the call the buffer holds
\* fewer than batch_size rows
C9_FlushPolicy ==
    [][ /\ handed' # handed =>
              FlushPolicy(UpdateRows(handed'[Len(handed')].update,
                                     handed'[Len(handed')].is_snapshot),
                          storage.depth_updates_df, storage.depth_csv,
                          storage.depth_updates_batches_saved,
                          storage'.depth_updates_df, storage'.depth_csv,
                          storage'.depth_updates_batches_saved)
        /\ handed_trades' # handed_trades =>
              FlushPolicy(handed_trades'[Len(handed_trades')],
                          storage.trades_df, storage.trades_csv,
                          storage.trades_batches_saved,
                          storage'.trades_df, storage'.trades_csv,
                          storage'.trades_batches_saved) ]_vars

\* C9 witness: after a flush the depth buffer has been refilled to one row short
\* of batch_size, and the trades buffer has been flushed too
C9_Witness ==
    /\ storage.depth_updates_batches_saved >= 1
    /\ Len(storage.depth_updates_df) = BatchSize - 1
    /\ storage.trades_batches_saved >= 1

\* C10 as claimed: once batch_size updates have been offered to the sink, the depth
\* file holds a header and all their rows, however many rows each carries
C10_BatchBoundary ==
    Len(handed) = BatchSize =>
        /\ HeaderCount(storage.depth_csv) = 1
        /\ FileRows(storage.depth_csv) = HandedRows

\* C10 amended: once batch_size updates of exactly one row each have been offered
\* to the sink, the depth file is the header followed by all their rows
C10_BatchBoundaryOneRowEach ==
    ( /\ Len(handed) = BatchSize
      /\ \A i \in 1..Len(handed) :
            Len(UpdateRows(handed[i].update, handed[i].is_snapshot)) = 1 )
    => /\ storage.depth_csv =
              <<HeaderLine(DepthColumns)>>
                  \o [i \in 1..Len(HandedRows) |-> RowLine(HandedRows[i])]
       /\ storage.depth_updates_df = <<>>

\* C10 witness: batch_size updates of one row each have been offered
C10_Witness ==
    /\ Len(handed) = BatchSize
    /\ \A i \in 1..Len(handed) :
          Len(UpdateRows(handed[i].update, handed[i].is_snapshot)) = 1
    /\ Len(FileRows(storage.depth_csv)) = BatchSize

(* ---------------------------- C11 --------------------------------------- *)
\* C11: is_synced is monotone and one-shot: it is false after construction, and no
\* step (a depth update with any fetch outcome, another frame, start, stop) takes
\* it from true back to false.
C11_SyncedOneShot ==
    /\ ~book_synchronizer.is_synced
    /\ [][book_synchronizer.is_synced => book_synchronizer'.is_synced]_vars

\* the book was synced, an inconsistent update then made the handler raise, a
\* further update followed, and the pipeline was stopped: is_synced is still true
C11_Witness ==
    /\ book_synchronizer.is_synced
    /\ pc = "stopped"
    /\ raised > 0
    /\ Len(arrived) > synced_at + 1
    /\ \E i \in (synced_at + 1)..(Len(arrived) - 1) :
         arrived[i].first_update_id # arrived[i - 1].last_update_id + 1

(* ---------------------------- C16 --------------------------------------- *)
\* the frames of the depth stream that are JSON objects whose event type is absent
\* or is not "depthUpdate"
IgnoredEventFrames ==
    { f \in OtherStreamFrames :
        f.json /\ ("e" \notin DOMAIN f.obj \/ f.obj.e # "depthUpdate") }

\* C16: a depth-stream frame whose event type is absent or is not "depthUpdate"
\* persists no row, logs no warning, and leaves is_synced, the snapshot, the
\* buffered updates, last_update and the sink untouched; only local_timestamp is
\* refreshed.
C16_OtherEventsIgnored ==
    [][ \A frame \in IgnoredEventFrames, lts \in ClockReadings :
          OtherDepthFrameOn(frame, lts) =>
            /\ ~warned'
            /\ local_timestamp' = lts
            /\ UNCHANGED << book_synchronizer, last_book_update, storage, handed,
                            arrived, total_messages, raised >> ]_vars

\* a synced pipeline with rows in the sink's buffer whose last frame arrived after
\* the last update, refreshed local_timestamp and logged nothing
C16_Witness ==
    /\ book_synchronizer.is_synced
    /\ storage.depth_updates_df # <<>>
    /\ ~warned
    /\ local_timestamp > arrived[Len(arrived)].local_timestamp

(* ---------------------------- C19 --------------------------------------- *)
\* C19: in the step where try_to_sync_book sets is_synced, u* is the first update
\* in arrival order, among the buffered updates (the arriving one included) with
\* last_update_id > L, that satisfies first_update_id <= L + 1 <= last_update_id,
\* and the buffer left behind is exactly the arrival-order suffix of the buffer
\* that starts at u*.
C19_SuffixFromFirstMatch ==
    [][ (~book_synchronizer.is_synced /\ book_synchronizer'.is_synced) =>
          LET buf   == Append(book_synchronizer.book_updates, arrived'[Len(arrived')])
              L     == book_synchronizer'.initial_book_snapshot[1].lastUpdateId
              cands == { k \in 1..Len(buf) :
                           /\ buf[k].last_update_id > L
                           /\ buf[k].first_update_id <= L + 1
                           /\ L + 1 <= buf[k].last_update_id }
          IN  /\ cands # {}
              /\ LET k == CHOOSE c \in cands : \A d \in cands : c <= d
                 IN  book_synchronizer'.book_updates = SubSeq(buf, k, Len(buf)) ]_vars

\* a sync in which u* was neither the oldest nor the newest buffered update:
\* something was dropped before it and something kept after it
C19_Witness ==
    /\ book_synchronizer.is_synced
    /\ Len(book_synchronizer.book_updates) >= 2
    /\ book_synchronizer.book_updates[1] # arrived[1]
    /\ synced_at >= 3

(* ---------------------------- C20 --------------------------------------- *)
\* C20: nothing is handed to the sink while is_synced is false; the first rows
\* handed are the rows of the snapshot (is_snapshot = TRUE), they are handed once,
\* and every row handed after them has is_snapshot = FALSE.
C20_SnapshotRowsFirstAndOnce ==
    LET rows == HandedRows
        n    == Len(SnapshotBids) + Len(SnapshotAsks)
    IN  /\ ~book_synchronizer.is_synced => handed = <<>>
        /\ handed # <<>> =>
             /\ handed[1].is_snapshot
             /\ \A i \in 2..Len(handed) : ~handed[i].is_snapshot
             /\ Len(rows) >= n
             /\ \A i \in 1..Len(rows) : rows[i].is_snapshot <=> (i <= n)

\* a synced pipeline that handed over the snapshot, the replayed updates and at
\* least one update that arrived after the sync
C20_Witness ==
    /\ book_synchronizer.is_synced
    /\ Len(arrived) > synced_at
    /\ \E i \in 1..Len(handed) : handed[i].at > synced_at /\ ~handed[i].is_snapshot
    /\ handed[1].is_snapshot

(* ---------------------------- C18 --------------------------------------- *)
\* u covers the id that follows the snapshot's lastUpdateId L
Straddles(u, L) == u.first_update_id <= L + 1 /\ L + 1 <= u.last_update_id

\* the snapshot is held, the book is not synced yet, L + 1 is not below the first
\* id of the earliest buffered update, and the stream still has to emit L + 1
\* (the stream of the model ends at MaxId)
AwaitingFirstUpdate ==
    /\ ~book_synchronizer.is_synced
    /\ book_synchronizer.initial_book_snapshot # <<>>
    /\ book_synchronizer.book_updates # <<>>
    /\ book_synchronizer.initial_book_snapshot[1].lastUpdateId + 1
         >= book_synchronizer.book_updates[1].first_update_id
    /\ book_synchronizer.initial_book_snapshot[1].lastUpdateId + 1 <= MaxId

\* an arrival that leaves the book unsynced only appends to the buffer and hands
\* nothing to the sink
OnlyGrowsUntilSynced ==
    [][ (Len(arrived') = Len(arrived) + 1 /\ ~book_synchronizer'.is_synced) =>
          /\ book_synchronizer'.book_updates
               = Append(book_synchronizer.book_updates, arrived'[Len(arrived')])
          /\ handed' = handed ]_vars

\* C18 as stated: on a contiguous stream that keeps arriving, once a fetch has
\* returned a snapshot with L + 1 >= the first id of the earliest buffered update
\* the pipeline eventually becomes synced, and the step that syncs it is the
\* arrival of an update u with u.first_update_id <= L + 1 <= u.last_update_id;
\* until then each arrival only grows the buffer.
C18_SyncedOnArrivalOfFirstUpdate ==
    /\ AwaitingFirstUpdate ~> book_synchronizer.is_synced
    /\ [][ (~book_synchronizer.is_synced /\ book_synchronizer'.is_synced) =>
             Straddles(arrived'[Len(arrived')],
                       book_synchronizer'.initial_book_snapshot[1].lastUpdateId) ]_vars
    /\ OnlyGrowsUntilSynced

\* C18 amended: the pipeline eventually becomes synced, namely in the first
\* arrival after which the snapshot is held and the buffer, the arriving update
\* included, contains an update u with u.first_update_id <= L + 1 <=
\* u.last_update_id: u is the arriving update when the snapshot was fetched on an
\* earlier arrival, and may be an older one when the fetch succeeds only now.
C18_SyncedOnceSnapshotAndFirstUpdate ==
    /\ AwaitingFirstUpdate ~> book_synchronizer.is_synced
    /\ [][ (Len(arrived') = Len(arrived) + 1 /\ ~book_synchronizer.is_synced) =>
             LET buf == Append(book_synchronizer.book_updates, arrived'[Len(arrived')])
                 s   == book_synchronizer'.initial_book_snapshot
             IN  /\ book_synchronizer'.is_synced <=>
                      /\ s # <<>>
                      /\ \E k \in 1..Len(buf) : Straddles(buf[k], s[1].lastUpdateId)
                 /\ (book_synchronizer'.is_synced /\
                     book_synchronizer.initial_book_snapshot # <<>>) =>
                       Straddles(arrived'[Len(arrived')], s[1].lastUpdateId) ]_vars
    /\ OnlyGrowsUntilSynced

\* a snapshot fetched on the first arrival was ahead of the stream, two further
\* arrivals followed, and the book got synced on the arrival of the update that
\* covers L + 1
C18_Witness ==
    /\ book_synchronizer.is_synced
    /\ synced_at >= 3
    /\ Straddles(arrived[synced_at], book_synchronizer.initial_book_snapshot[1].lastUpdateId)
    /\ arrived[1].last_update_id
         <= book_synchronizer.initial_book_snapshot[1].lastUpdateId

(* ---------------------------- C12 --------------------------------------- *)
\* stop has been called on the pipeline
StopCalled(etl) == \E i \in DOMAIN etl.calls : etl.calls[i] = "stop"

\* C12: once the signal handler runs, it calls stop on every pipeline the
\* supervisor has built, one after the other in list order, and the process exits
\* with code 0 only after that: at exit 0 no pipeline is left without its stop.
C12_StopsAllThenExitsZero ==
    /\ handler.running =>
         \A i \in 1..Len(etls) : i < handler.i => StopCalled(etls[i])
    /\ \A i, j \in 1..Len(etls) :
         (i < j /\ StopCalled(etls[j])) => StopCalled(etls[i])
    /\ main.exit_code = << 0 >> =>
         /\ Len(etls) = Len(config)
         /\ \A i \in 1..Len(etls) : StopCalled(etls[i])
    /\ (main.pc = "exited" /\ handler.installed) => main.exit_code = << 0 >>

\* the process has exited with code 0 after stopping two pipelines, one of which
\* had been started and had received a frame, the other not yet started
C12_Witness ==
    /\ main.exit_code = << 0 >>
    /\ Len(etls) >= 2
    /\ etls[1].frames > 0
    /\ etls[2].calls = << "stop" >>

(* ---------------------------- C13 --------------------------------------- *)
\* C13: pipelines are independent. Whatever another pipeline is doing (its handler
\* is blocked in a fetch or a flush, or has raised on a gap), a subscribed pipeline
\* whose own handler is idle can take its next frame; and a step of one pipeline's
\* handler changes neither another pipeline nor the sink that pipeline holds.
C13_PipelinesIndependent ==
    /\ [](\A j \in 1..Len(etls) :
            ( /\ main.pc # "exited"
              /\ Subscribed(etls[j])
              /\ ~etls[j].in_handler
              /\ FramesDelivered(Len(etls)) < MaxFrames ) => ENABLED FrameArrives(j))
    /\ [][ \A j \in 1..Len(etls) :
             (FrameArrives(j) \/ HandlerReturns(j)) =>
               \A k \in 1..Len(etls) :
                 k # j => /\ etls'[k] = etls[k]
                          /\ sinks'[etls[k].storage] = sinks[etls[k].storage] ]_vars

\* one pipeline is inside its handler while another one, untouched by it, has
\* handed a row to its sink
C13_Witness ==
    \E i, j \in 1..Len(etls) :
      /\ i # j
      /\ etls[i].in_handler
      /\ etls[j].rows > 0
      /\ ~etls[j].in_handler
      /\ sinks[etls[i].storage].depth_updates + sinks[etls[i].storage].trades = 0

(* ---------------------------- C14 --------------------------------------- *)
\* C14: the supervisor builds one storage sink per (symbol, market): two pipelines
\* of the same symbol and market hold the same sink instance.
C14_OneSinkPerSymbolMarket ==
    \A i, j \in 1..Len(etls) :
      (etls[i].symbol = etls[j].symbol /\ etls[i].market = etls[j].market)
        => etls[i].storage = etls[j].storage

(* ---------------------------- C17 --------------------------------------- *)
\* C17: every pipeline moves only along Constructed -> Running -> Stopping ->
\* Stopped: the calls made on it are a prefix of (start, stop), whenever the
\* signal arrives.
C17_LifecycleOrder ==
    \A i \in 1..Len(etls) :
      etls[i].calls \in { <<>>, << "start" >>, << "start", "stop" >> }

(* ---------------------------- C15 --------------------------------------- *)
\* C15: add-and-maybe-flush behaves as one critical section. Under every
\* interleaving of the statements of add_depth_updates and add_trades run by two
\* threads on one sink, no row is lost or written twice (whenever a topic has no
\* call in progress, its file followed by its buffer holds the rows handed over
\* for that topic, each once and in call order), and no topic file has a second
\* header.
C15_InterleavedAddsKeepRows ==
    /\ HeaderCount(storage.depth_csv) <= 1
    /\ HeaderCount(storage.trades_csv) <= 1
    /\ storage.depth_csv # <<>> => storage.depth_csv[1] = HeaderLine(DepthColumns)
    /\ storage.trades_csv # <<>> => storage.trades_csv[1] = HeaderLine(TradeColumns)
    /\ in_call.depth.pc = "idle" =>
         FileRows(storage.depth_csv) \o storage.depth_updates_df = HandedRows
    /\ in_call.trades.pc = "idle" =>
         FileRows(storage.trades_csv) \o storage.trades_df = HandedTradeRows

\* both topics have been flushed, trades are buffered again, and the depth thread
\* is about to empty its buffer after a flush
C15_Witness ==
    /\ in_call.depth.pc = "reset"
    /\ in_call.trades.pc = "idle"
    /\ storage.trades_df # <<>>
    /\ storage.trades_batches_saved >= 1
    /\ storage.depth_updates_batches_saved >= 1


(* ---------------------------- C21 --------------------------------------- *)
\* C21: when a synced pipeline receives an update whose first_update_id is not
\* the previous update's last_update_id + 1, the handler logs a warning and
\* raises, and nothing of that update reaches the sink: the sink (buffer, file,
\* batch counter) and the synchronizer are as they were before the frame
C21_GapAfterSyncFails ==
    [][ (InconsistentArrival /\ book_synchronizer.is_synced) =>
            /\ raised' = raised + 1
            /\ warned'
            /\ storage' = storage
            /\ handed' = handed
            /\ book_synchronizer' = book_synchronizer ]_vars

\* the last frame of a synced pipeline left a gap and made the handler raise,
\* while rows of earlier updates are in the sink's buffer and in the file
C21_Witness ==
    /\ book_synchronizer.is_synced
    /\ raised > 0
    /\ warned
    /\ Len(arrived) > synced_at
    /\ Len(arrived) >= 2
    /\ last_book_update = <<arrived[Len(arrived)]>>
    /\ arrived[Len(arrived)].first_update_id
          # arrived[Len(arrived) - 1].last_update_id + 1
    /\ \A i \in 1..Len(handed) : handed[i].update # arrived[Len(arrived)]
    /\ Len(storage.depth_updates_df) > 0
    /\ Len(storage.depth_csv) > 0


(* ---------------------------- C22 --------------------------------------- *)
\* C22: the consistency monitor finds an update inconsistent (and the handler
\* raises) exactly when a previous update exists and the update's
\* first_update_id is not that update's last_update_id + 1, so the first update
\* ever is consistent; after the check last_book_update is the current update
\* whatever the verdict
C22_ConsistencyMonitor ==
    [][ Len(arrived') = Len(arrived) + 1 =>
          LET update == arrived'[Len(arrived')]
          IN  /\ (raised' = raised + 1) <=>
                    /\ last_book_update # <<>>
                    /\ update.first_update_id
                          # last_book_update[1].last_update_id + 1
              /\ raised' \in {raised, raised + 1}
              /\ last_book_update' = <<update>> ]_vars

\* the first update was accepted, a later one left a gap and was rejected, and
\* the update after it was accepted because it follows the rejected one
C22_Witness ==
    /\ Len(arrived) >= 3
    /\ raised = 1
    /\ last_book_update = <<arrived[Len(arrived)]>>
    /\ arrived[Len(arrived)].first_update_id
          = arrived[Len(arrived) - 1].last_update_id + 1
    /\ arrived[Len(arrived) - 1].first_update_id
          # arrived[Len(arrived) - 2].last_update_id + 1


(* ---------------------------- C23 --------------------------------------- *)
\* C23: while the pipeline is unsynced and holds no snapshot, an update offered
\* to the synchronizer meets one fetch; when the fetch fails the update is kept
\* at the end of buffered updates, the snapshot stays absent, is_synced stays
\* false, a warning is logged and nothing is handed to the sink, so the next
\* offered update finds the synchronizer in the same case and fetches again
C23_FetchFailureKeepsUpdate ==
    [][ ( /\ Len(arrived') = Len(arrived) + 1
          /\ raised' = raised
          /\ ~book_synchronizer.is_synced
          /\ book_synchronizer.initial_book_snapshot = <<>> ) =>
            \/ /\ book_synchronizer'.initial_book_snapshot = <<>>
               /\ ~book_synchronizer'.is_synced
               /\ book_synchronizer'.book_updates
                     = Append(book_synchronizer.book_updates, arrived'[Len(arrived')])
               /\ warned'
               /\ handed' = handed
               /\ storage' = storage
            \/ /\ book_synchronizer'.initial_book_snapshot # <<>>
               /\ \E i \in 1..Len(book_synchronizer'.book_updates) :
                     book_synchronizer'.book_updates[i] = arrived'[Len(arrived')] ]_vars

\* the fetch failed for the first two updates and succeeded for a later one: the
\* book synced at the third frame or later on a snapshot the first update
\* straddles, and every update offered during the failures is in the buffer
C23_Witness ==
    /\ book_synchronizer.is_synced
    /\ raised = 0
    /\ synced_at >= 3
    /\ Straddles(arrived[1], book_synchronizer.initial_book_snapshot[1].lastUpdateId)
    /\ \A i \in 1..synced_at : book_synchronizer.book_updates[i] = arrived[i]


(* ---------------------------- C24 --------------------------------------- *)
\* the held snapshot is stale: the book is not synced and the id after the
\* snapshot's lastUpdateId is below the first id of every buffered update, so no
\* buffered or later update can cover it
StaleSnapshot ==
    /\ ~book_synchronizer.is_synced
    /\ book_synchronizer.initial_book_snapshot # <<>>
    /\ book_synchronizer.book_updates # <<>>
    /\ \A i \in 1..Len(book_synchronizer.book_updates) :
          book_synchronizer.initial_book_snapshot[1].lastUpdateId + 1
              < book_synchronizer.book_updates[i].first_update_id

\* C24 as claimed: a stale snapshot is discarded and fetched again, so when the
\* next update of the stream has been offered to the synchronizer the stale
\* snapshot is no longer the one it holds
C24_StaleSnapshotDiscarded ==
    [][ ( /\ StaleSnapshot
          /\ Len(arrived') = Len(arrived) + 1
          /\ raised' = raised ) =>
            book_synchronizer'.initial_book_snapshot
                # book_synchronizer.initial_book_snapshot ]_vars


(* ---------------------------- C25 --------------------------------------- *)
\* C25 as claimed: once the frame that completed the synchronization has been
\* handled, the synchronizer's buffered updates are empty
C25_BufferClearedAfterSync ==
    book_synchronizer.is_synced => book_synchronizer.book_updates = <<>>

(* ---------------------------- C26 --------------------------------------- *)
\* C26 as claimed: the synchronizer never holds more than a fixed number of
\* buffered updates, whatever the number of failed fetches
C26_BufferBounded ==
    Len(book_synchronizer.book_updates) <= BufferCap


(* ---------------------------- C27 --------------------------------------- *)
\* the depth rows the sink holds, written ones first
SinkDepthRows == FileRows(storage.depth_csv) \o storage.depth_updates_df

\* the row a price level of an update is persisted as
LevelRow(update, side, level) ==
    [ timestamp       |-> update.timestamp,
      local_timestamp |-> update.local_timestamp,
      side            |-> side,
      price           |-> level[1],
      quantity        |-> level[2],
      is_snapshot     |-> FALSE ]

\* C27: each persisted update adds exactly len(bids) + len(asks) rows to the
\* sink, one per price level, with side "bid" or "ask" and the price and quantity
\* strings of the level unchanged; a level of quantity "0" gives a row like any
\* other, with is_snapshot false
C27_OneRowPerLevel ==
    [][ Len(handed') = Len(handed) + 1 =>
          LET update == handed'[Len(handed')].update
              n      == Len(update.bids) + Len(update.asks)
              old    == SinkDepthRows
              new    == SinkDepthRows'
          IN  /\ Len(new) = Len(old) + n
              /\ SubSeq(new, 1, Len(old)) = old
              /\ { new[i] : i \in (Len(old) + 1)..Len(new) }
                    = { LevelRow(update, "bid", update.bids[i]) :
                            i \in 1..Len(update.bids) }
                      \cup { LevelRow(update, "ask", update.asks[i]) :
                            i \in 1..Len(update.asks) } ]_vars

\* a level of quantity "0" has been written to the depth file as a bid row with
\* is_snapshot false, next to the ask row of its update
C27_Witness ==
    /\ Len(handed) >= 2
    /\ \E i, j \in 1..Len(storage.depth_csv) :
          /\ ~storage.depth_csv[i].header
          /\ ~storage.depth_csv[j].header
          /\ storage.depth_csv[i].row[1].quantity = "0"
          /\ storage.depth_csv[i].row[1].side = "bid"
          /\ ~storage.depth_csv[i].row[1].is_snapshot
          /\ storage.depth_csv[j].row[1].side = "ask"
          /\ storage.depth_csv[j].row[1].timestamp
                = storage.depth_csv[i].row[1].timestamp


(* ---------------------------- C28 --------------------------------------- *)
\* the batches written to the depth file: the add calls k.. replayed over the
\* buffer df, a batch being the whole buffer at the call that reaches BatchSize
RECURSIVE DepthFlushes(_, _)
DepthFlushes(k, df) ==
    IF k > Len(handed) THEN <<>>
    ELSE LET after == df \o UpdateRows(handed[k].update, handed[k].is_snapshot)
         IN  IF Len(after) >= BatchSize
             THEN <<after>> \o DepthFlushes(k + 1, <<>>)
             ELSE DepthFlushes(k + 1, after)

\* the order of sort_values(by=['timestamp', 'side']): "ask" sorts before "bid"
SideRank(side) == IF side = "ask" THEN 0 ELSE 1

RowKeyLeq(r1, r2) ==
    \/ r1.timestamp < r2.timestamp
    \/ r1.timestamp = r2.timestamp /\ SideRank(r1.side) <= SideRank(r2.side)

\* C28 as claimed: within every flush of the depth file the rows are in
\* non-decreasing order of (timestamp, side), also when the flush holds snapshot
\* rows together with rows of buffered updates or spans several updates (the
\* flushes replayed from the add calls are the rows the file holds)
C28_FlushSorted ==
    LET flushes == DepthFlushes(1, <<>>)
    IN  /\ Flatten(flushes) = FileRows(storage.depth_csv)
        /\ \A k \in 1..Len(flushes) :
              \A i \in 1..(Len(flushes[k]) - 1) :
                  RowKeyLeq(flushes[k][i], flushes[k][i + 1])


(* ---------------------------- C29 --------------------------------------- *)
\* the frames of the depth stream that fail to deserialize: text that is not JSON,
\* and a depthUpdate event lacking one of the fields E, b, a, U, u
UndecodableFrames ==
    { f \in OtherStreamFrames :
        \/ ~f.json
        \/ /\ "e" \in DOMAIN f.obj
           /\ f.obj.e = "depthUpdate"
           /\ ~({"E", "b", "a", "U", "u"} \subseteq DOMAIN f.obj) }

\* C29: a depth-stream frame that fails to deserialize is recovered locally: a
\* warning is logged, no row is persisted, the handler does not raise, and
\* last_update, the buffered updates, the snapshot and is_synced are unchanged;
\* the pipeline keeps running and takes the next frame from the same state
C29_UndecodableFrameRecovered ==
    [][ \A frame \in UndecodableFrames, lts \in ClockReadings :
          OtherDepthFrameOn(frame, lts) =>
            /\ warned'
            /\ local_timestamp' = lts
            /\ pc' = "running"
            /\ UNCHANGED << book_synchronizer, last_book_update, storage, handed,
                            arrived, total_messages, raised >> ]_vars

\* a synced pipeline that never raised, with rows in the sink's buffer, whose last
\* frame arrived after the last update and logged a warning
C29_Witness ==
    /\ pc = "running"
    /\ book_synchronizer.is_synced
    /\ storage.depth_updates_df # <<>>
    /\ raised = 0
    /\ warned
    /\ local_timestamp > arrived[Len(arrived)].local_timestamp


(* ---------------------------- C30 --------------------------------------- *)
\* C30 as claimed: a well-formed trade-stream frame that is not a trade event,
\* the frame without event-type field included, is discarded silently: no row
\* reaches the sink and no warning is logged
C30_NonTradeFramesSilent ==
    [][ ( /\ Len(trade_frames') = Len(trade_frames) + 1
          /\ trade_frames'[Len(trade_frames')].json
          /\ ~IsTradeEvent(trade_frames'[Len(trade_frames')]) ) =>
            /\ ~warned'
            /\ storage' = storage
            /\ handed_trades' = handed_trades ]_vars


(* ---------------------------- C31 --------------------------------------- *)
\* start has been called on pipeline etl
StartCalled(etl) == \E i \in DOMAIN etl.calls : etl.calls[i] = "start"

\* C31: the signal handlers are installed after every pipeline of the
\* configuration is built and before the first pipeline is started, so a signal
\* delivered once a pipeline has been started is never left to the default
\* disposition: it runs the handler, whose loop starts at the first pipeline of
\* the complete list
C31_HandlersBetweenBuildAndStart ==
    /\ handler.installed => Len(etls) = Len(config)
    /\ (\E i \in 1..Len(etls) : StartCalled(etls[i])) =>
          /\ handler.installed
          /\ main.exit_code # << 130 >>
    /\ handler.running => handler.installed /\ Len(etls) = Len(config)

\* a signal was delivered in the middle of the start loop: two pipelines are
\* built, the first is started, the second is not, and the handler is running
C31_Witness ==
    /\ Len(etls) = 2
    /\ etls[1].calls = << "start" >>
    /\ etls[2].calls = <<>>
    /\ handler.running
    /\ handler.signals = 1
    /\ handler.i = 1


(* ---------------------------- C32 --------------------------------------- *)
IsPrefix(s, t) == Len(s) <= Len(t) /\ SubSeq(t, 1, Len(s)) = s

\* a step that constructs a sink for btcusdt.spot
ConstructsSink ==
    /\ Len(sinks') = Len(sinks) + 1
    /\ sinks'[Len(sinks')].market = "spot"
    /\ sinks'[Len(sinks')].symbol = "btcusdt"

\* C32: the output log is append-only. Constructing a sink leaves both topic
\* files empty, whatever they held; from the first flush of a topic on, the file
\* before a step is a prefix of the file after it; and no sink is constructed
\* for the (symbol, market) once one of its pipelines has flushed rows.
C32_AppendOnly ==
    [][ /\ ConstructsSink =>
              /\ storage'.depth_csv = <<>>
              /\ storage'.trades_csv = <<>>
              /\ storage.depth_updates_batches_saved = 0
              /\ storage.trades_batches_saved = 0
        /\ storage.depth_updates_batches_saved > 0 =>
              IsPrefix(storage.depth_csv, storage'.depth_csv)
        /\ storage.trades_batches_saved > 0 =>
              IsPrefix(storage.trades_csv, storage'.trades_csv) ]_vars

\* two sinks were constructed for btcusdt.spot, the depth file has been flushed
\* twice, and the trade pipeline has rows in its buffer
C32_Witness ==
    /\ Len(sinks) = 2
    /\ \A k \in 1..2 : sinks[k].symbol = "btcusdt"
    /\ storage.depth_updates_batches_saved = 2
    /\ Len(FileRows(storage.depth_csv)) >= 2 * BatchSize
    /\ storage.trades_df # <<>>


(* ---------------------------- C33 --------------------------------------- *)
\* the frames after the one that completed the sync whose update the consistency
\* monitor accepted (last_book_update is always the previous arrival)
AcceptedAfterSync ==
    { i \in (synced_at + 1)..Len(arrived) :
        arrived[i].first_update_id = arrived[i - 1].last_update_id + 1 }

\* the calls of _save_update made by the frames after the one that completed the
\* sync, in call order
HandedAfterSync == SelectSeq(handed, LAMBDA h : h.at > synced_at)

\* C33: after the frame that completed the sync, every update the consistency
\* monitor accepts is handed to the sink exactly once, in arrival order and by
\* the handler of its own frame, and nothing else is handed: the updates
\* persisted after the sync are the accepted updates, in order
C33_AcceptedOncePostSync ==
    book_synchronizer.is_synced =>
        /\ Len(HandedAfterSync) = Cardinality(AcceptedAfterSync)
        /\ \A k \in 1..Len(HandedAfterSync) :
              /\ HandedAfterSync[k].at \in AcceptedAfterSync
              /\ HandedAfterSync[k].update = arrived[HandedAfterSync[k].at]
              /\ ~HandedAfterSync[k].is_snapshot
              /\ k > 1 => HandedAfterSync[k - 1].at < HandedAfterSync[k].at

\* after the sync an update was rejected for a gap and the update after it, which
\* follows the rejected one, was accepted: it alone was handed over since the sync
C33_Witness ==
    /\ book_synchronizer.is_synced
    /\ Len(arrived) = synced_at + 2
    /\ AcceptedAfterSync = {synced_at + 2}
    /\ Len(HandedAfterSync) = 1
    /\ raised = 1


(* ---------------------------- C34 --------------------------------------- *)
\* C34 as claimed: while the pipeline is unsynced the buffered updates form a
\* contiguous chain, each one starting at the id after the last id of the one
\* before it
C34_BufferContiguous ==
    ~book_synchronizer.is_synced =>
        \A i \in 1..(Len(book_synchronizer.book_updates) - 1) :
            book_synchronizer.book_updates[i + 1].first_update_id
                = book_synchronizer.book_updates[i].last_update_id + 1


(* ---------------------------- C35 --------------------------------------- *)
\* C35: rows are conserved in the sink. For each topic, in every state, the data
\* rows of the file followed by the rows of the buffer are the rows passed to the
\* topic's add call, in call order: a flush drops, duplicates and reorders nothing
C35_RowConservation ==
    /\ FileRows(storage.depth_csv) \o storage.depth_updates_df = HandedRows
    /\ FileRows(storage.trades_csv) \o storage.trades_df = HandedTradeRows

\* both topics have been flushed and the depth buffer holds rows again
C35_Witness ==
    /\ storage.depth_updates_batches_saved >= 1
    /\ storage.trades_batches_saved >= 1
    /\ storage.depth_updates_df # <<>>
    /\ Len(FileRows(storage.depth_csv)) >= BatchSize
    /\ Len(FileRows(storage.trades_csv)) >= BatchSize


(* ---------------------------- C36 --------------------------------------- *)
\* C36: once is_synced is true the synchronizer is frozen: whatever frame
\* arrives, accepted, rejected or not an update, the snapshot, the buffered
\* updates and is_synced are left as they are
C36_SynchronizerFrozen ==
    [][ book_synchronizer.is_synced =>
            book_synchronizer' = book_synchronizer ]_vars

\* since the sync one update was accepted and handed to the sink and another was
\* rejected, and neither is in the synchronizer's buffer
C36_Witness ==
    /\ book_synchronizer.is_synced
    /\ Len(arrived) >= synced_at + 2
    /\ raised >= 1
    /\ HandedAfterSync # <<>>
    /\ Len(book_synchronizer.book_updates) <= synced_at
    /\ \A i \in (synced_at + 1)..Len(arrived) :
          \A k \in 1..Len(book_synchronizer.book_updates) :
              book_synchronizer.book_updates[k] # arrived[i]


(* ---------------------------- C37 --------------------------------------- *)
\* C37: the two topics of a sink are isolated. add_trades leaves the depth
\* buffer, depth_updates_batches_saved and the depth file unchanged, and
\* add_depth_updates leaves the trades buffer, trades_batches_saved and the
\* trades file unchanged, whether or not the call flushes
C37_TopicsIsolated ==
    [][ /\ handed_trades' # handed_trades =>
              /\ storage'.depth_updates_df = storage.depth_updates_df
              /\ storage'.depth_updates_batches_saved
                    = storage.depth_updates_batches_saved
              /\ storage'.depth_csv = storage.depth_csv
        /\ handed' # handed =>
              /\ storage'.trades_df = storage.trades_df
              /\ storage'.trades_batches_saved = storage.trades_batches_saved
              /\ storage'.trades_csv = storage.trades_csv ]_vars

\* the trades topic has just been flushed (its buffer is empty and its file holds
\* a whole batch) while the depth topic has flushed rows and buffered rows
C37_Witness ==
    /\ storage.trades_batches_saved = 1
    /\ storage.trades_df = <<>>
    /\ Len(FileRows(storage.trades_csv)) = BatchSize
    /\ storage.depth_updates_batches_saved = 1
    /\ storage.depth_updates_df # <<>>


(* ---------------------------- C38 --------------------------------------- *)
\* C38 as claimed: in IncrementalBookETL the accepted updates not yet saved never
\* number more than storage_batch_size, whatever the length of the synchronizer's
\* buffer at the sync
C38_BatchBounded ==
    Len(etl_book_updates) <= StorageBatchSize

====
